---- MODULE Spec2Model ----
(***************************************************************************)
(* PolyAlertPet: the two polling loops of app/background.py                *)
(* (monitor_positions, monitor_whales), the store they read and write      *)
(* (app/db.py) and the remote data client (app/polymarket.py).             *)
(*                                                                         *)
(* Percentages are integers (the code uses floats; only differences and    *)
(* comparisons with the threshold matter).  A JSON scalar of a remote      *)
(* payload is a pair <<kind, value>>: a number, an absent/null field, or a *)
(* string that float() rejects.  now() is the number of the running cycle. *)
(* Columns that no decision reads (title, outcome, label, updated_at,      *)
(* last_cur_price) are left out of the rows.                               *)
(***************************************************************************)
EXTENDS Integers, Sequences, FiniteSets, TLC

VARIABLES
    \* the store (app/db.py CREATE_TABLES_SQL)
    wallets,             \* sequence of rows, id = index (SERIAL)
    position_snapshots,  \* set of rows
    activity_markers,    \* sequence of rows, id = index (SERIAL)
    equity_snapshots,    \* sequence of rows (append only)
    \* the remote data service, as seen by app/polymarket.py
    pm_positions,        \* address -> what /positions answers: anything, or one frozen list
    pm_value,            \* address -> whether /value has a value for the address
    config,              \* core.config (app/config.py), set once at start-up
    \* monitor_positions
    p_pc, p_cycle, p_wallets, p_i, positions, p_j, total_value, should_alert,
    p_obs,               \* history: observations upserted in this wallet's pass
    p_sent,              \* history: send_message calls in this wallet's pass
    p_fetch,             \* history: outcome of each /positions fetch of this cycle
    p_conn,              \* store operations run so far on the connection of line 50, NoConn when none is held
    \* monitor_whales
    w_pc, w_cycle, rows, w_i, trades_sorted, w_j, max_ts,
    w_answer,            \* history: what /activity answered for this roster row
    w_sent,              \* history: send_message calls of this cycle for the wallet in hand
    w_fetch,             \* history: outcome of each /activity fetch of this cycle
    w_hist,              \* history: the <<subscriber, address, trade>> delivered so far
    w_twice,             \* history: those delivered more than once
    \* save_wallet calls in flight (app/db.py)
    calls

db_vars  == <<wallets, position_snapshots, activity_markers, equity_snapshots>>
pm_vars  == <<pm_positions, pm_value>>
p_locals == <<p_wallets, p_i, positions, p_j, total_value, should_alert>>
p_hist   == <<p_obs, p_sent, p_fetch>>
p_vars   == <<p_pc, p_cycle, p_locals, p_hist, p_conn>>
w_locals == <<rows, w_i, trades_sorted, w_j, max_ts>>
w_hists  == <<w_hist, w_twice>>
w_vars   == <<w_pc, w_cycle, w_locals, w_answer, w_sent, w_fetch, w_hists>>
vars     == <<db_vars, pm_vars, config, p_vars, w_vars, calls>>
\* what monitor_positions never touches, and what monitor_whales never touches
p_env    == <<pm_vars, config, w_vars, calls>>
w_env    == <<pm_vars, config, p_vars, calls>>

---------------------------------------------------------------------------
\* Bounds of the model
MaxCycles == 2        \* cycles each loop runs
MaxPositions == 2     \* length of a /positions answer
MaxTrades == 3        \* length of an /activity answer
MaxCalls == 2         \* save_wallet calls

---------------------------------------------------------------------------
\* JSON scalars
None == <<"none", 0>>
Bad == <<"bad", 0>>
Num(v) == <<"num", v>>
IsNone(x) == x[1] = "none"
IsFloat(x) == x[1] = "num"
Float(x) == x[2]
Abs(x) == IF x < 0 THEN -x ELSE x

\* Config: alert_threshold_percent defaults to 5.0; from_env takes any float of
\* ALERT_THRESHOLD_PERCENT, zero included
Config(threshold) == [alert_threshold_percent |-> threshold]

DefaultConfig == Config(5)

FromEnv == {Config(t) : t \in {0, 5}}

NULL == 0    \* a NULL timestamp column; now() >= 1

NoConn == -1    \* monitor_positions holds no pool connection

\* one element of a /positions answer
Position(c, pct, price) == [conditionId |-> c, percentPnl |-> pct, curPrice |-> price]

Entries ==
    {Position(Num(1), Num(v), Num(1)) : v \in {0, 3, 5}}
    \cup {Position(Num(2), Num(0), None)}
    \cup {Position(None, Num(0), Num(1)),
          Position(Num(1), None, Num(1)),
          Position(Num(1), Bad, Num(1))}

SmallEntries == {Position(Num(1), Num(v), Num(1)) : v \in {0, 5}}

OddEntries ==
    {Position(Num(1), Num(0), Num(1)), Position(Num(1), Bad, Num(1)),
     Position(None, Num(0), Num(1))}

SeqsUpTo(S, n) == UNION {[1..k -> S] : k \in 0..n}

---------------------------------------------------------------------------
\* The store

Wallet(u, a, whale) ==
    [tg_user_id |-> u, address |-> a, is_whale |-> whale,
     alerts_enabled |-> TRUE, whale_alerts_enabled |-> whale]

\* a variant of the roster query without "w.alerts_enabled=TRUE"
RECURSIVE SelectOwnWallets(_, _)
SelectOwnWallets(ws, k) ==
    IF k > Len(ws) THEN <<>>
    ELSE (IF ~ws[k].is_whale
          THEN <<[id |-> k, address |-> ws[k].address,
                  tg_user_id |-> ws[k].tg_user_id]>>
          ELSE <<>>) \o SelectOwnWallets(ws, k + 1)

\* SELECT id, address, tg_user_id FROM wallets
\* WHERE is_whale=FALSE AND alerts_enabled=TRUE   (rows in table order)
RECURSIVE SelectPositionWallets(_, _)
SelectPositionWallets(ws, k) ==
    IF k > Len(ws) THEN <<>>
    ELSE (IF ~ws[k].is_whale /\ ws[k].alerts_enabled
          THEN <<[id |-> k, address |-> ws[k].address,
                  tg_user_id |-> ws[k].tg_user_id]>>
          ELSE <<>>) \o SelectPositionWallets(ws, k + 1)

\* SELECT last_percent_pnl FROM position_snapshots
\* WHERE wallet_id=$1 AND condition_id=$2
SelectSnapshot(snaps, wallet_id, cond_id) ==
    {r \in snaps : r.wallet_id = wallet_id /\ r.condition_id = cond_id}

\* a variant of the upsert that moves the baseline only when an alert fires
UpsertOnAlert(snaps, wallet_id, cond_id, pct, alert, now) ==
    IF SelectSnapshot(snaps, wallet_id, cond_id) = {}
    THEN snaps \cup {[wallet_id |-> wallet_id, condition_id |-> cond_id,
                      last_percent_pnl |-> Num(pct),
                      last_alert_at |-> IF alert THEN now ELSE NULL]}
    ELSE {IF r.wallet_id = wallet_id /\ r.condition_id = cond_id /\ alert
          THEN [r EXCEPT !.last_percent_pnl = Num(pct), !.last_alert_at = now]
          ELSE r : r \in snaps}

\* a variant of the statement without its ON CONFLICT clause, on a table
\* without the UNIQUE constraint: every observation adds a row
InsertSnapshot(snaps, wallet_id, cond_id, pct, alert, now) ==
    snaps \cup {[wallet_id |-> wallet_id, condition_id |-> cond_id,
                 last_percent_pnl |-> Num(pct),
                 last_alert_at |-> IF alert THEN now ELSE NULL]}

\* a variant of the upsert whose DO UPDATE sets last_alert_at=EXCLUDED.last_alert_at
RefreshAlertAt(snaps, wallet_id, cond_id, pct, alert, now) ==
    IF SelectSnapshot(snaps, wallet_id, cond_id) = {}
    THEN snaps \cup {[wallet_id |-> wallet_id, condition_id |-> cond_id,
                      last_percent_pnl |-> Num(pct),
                      last_alert_at |-> IF alert THEN now ELSE NULL]}
    ELSE {IF r.wallet_id = wallet_id /\ r.condition_id = cond_id
          THEN [r EXCEPT !.last_percent_pnl = Num(pct),
                         !.last_alert_at = IF alert THEN now ELSE NULL]
          ELSE r : r \in snaps}

\* a variant that keeps only the latest observation of a wallet: the other
\* rows of the wallet are deleted
ReplaceSnapshots(snaps, wallet_id, cond_id, pct, alert, now) ==
    {r \in snaps : r.wallet_id # wallet_id}
    \cup {[wallet_id |-> wallet_id, condition_id |-> cond_id,
            last_percent_pnl |-> Num(pct),
            last_alert_at |-> IF alert THEN now ELSE NULL]}

\* INSERT INTO position_snapshots ... ON CONFLICT (wallet_id, condition_id)
\* DO UPDATE SET last_percent_pnl=EXCLUDED.last_percent_pnl,
\*   last_alert_at=CASE WHEN $7 THEN now() ELSE position_snapshots.last_alert_at END
\* (line 87 names the column last_alert_at inside VALUES; a server that rejects
\* the statement makes every upsert raise, which P_UpsertError covers)
UpsertSnapshot(snaps, wallet_id, cond_id, pct, alert, now) ==
    IF SelectSnapshot(snaps, wallet_id, cond_id) = {}
    THEN snaps \cup {[wallet_id |-> wallet_id, condition_id |-> cond_id,
                      last_percent_pnl |-> Num(pct),
                      last_alert_at |-> IF alert THEN now ELSE NULL]}
    ELSE {IF r.wallet_id = wallet_id /\ r.condition_id = cond_id
          THEN [r EXCEPT !.last_percent_pnl = Num(pct),
                         !.last_alert_at = IF alert THEN now ELSE @]
          ELSE r : r \in snaps}

---------------------------------------------------------------------------
\* monitor_positions: the decision

\* a variant of the decision that diffs a first observation against zero
ShouldAlertFromZero(row, cur_pct) ==
    LET prev == IF row = {} THEN Num(0) ELSE (CHOOSE r \in row : TRUE).last_percent_pnl IN
    IF IsNone(prev) THEN FALSE
    ELSE Abs(Float(cur_pct) - Float(prev)) >= config.alert_threshold_percent

\* lines 70-78: should_alert from the row read and the current percentage
ShouldAlert(row, cur_pct) ==
    IF row = {} THEN FALSE
    ELSE LET prev_pct == (CHOOSE r \in row : TRUE).last_percent_pnl IN
         IF IsNone(prev_pct) THEN FALSE
         ELSE Abs(Float(cur_pct) - Float(prev_pct)) >= config.alert_threshold_percent

\* line 76 evaluates float(cur_pct) only when a row with a percentage exists
DeltaRaises(row, cur_pct) ==
    /\ row # {}
    /\ ~IsNone((CHOOSE r \in row : TRUE).last_percent_pnl)
    /\ ~IsFloat(cur_pct)

\* lines 105-106: float(cur_pct), float(cur_price) if cur_price is not None
ArgsRaise(p) ==
    \/ ~IsFloat(p.percentPnl)
    \/ (~IsNone(p.curPrice) /\ ~IsFloat(p.curPrice))

\* a variant of the test that looks at the condition id only
SkippedWithoutCondition(p) == IsNone(p.conditionId)

\* line 58: if cond_id is None or cur_pct is None: continue
Skipped(p) == IsNone(p.conditionId) \/ IsNone(p.percentPnl)

---------------------------------------------------------------------------
\* The remote data service (app/polymarket.py)

Addresses == {"a1", "a2", "a3", "a4", "a5", "a6"}

\* a holder of two markets that move together
TwoMarkets ==
    {<<Position(Num(1), Num(v), Num(1)), Position(Num(2), Num(v), None)>> : v \in {0, 5}}

\* a holder of one market whose payload is not always well formed
OneMarket ==
    {<<Position(Num(1), Num(v), Num(1))>> : v \in {0, 5}}
    \cup {<<Position(Num(1), Bad, Num(1))>>, <<Position(None, Num(0), Num(1))>>}

\* every list of at most MaxPositions entries
TwoMarketLists == SeqsUpTo(Entries, MaxPositions)

\* the lists /positions can hold for an address: a1 trades two markets, a2 at
\* most one, a5 two that move together, a6 one, the others hold one position
\* that never moves and whose payload is not always well formed
PositionsOf(a) ==
    IF a = "a1" THEN TwoMarketLists
    ELSE IF a = "a2" THEN SeqsUpTo(SmallEntries, 1)
    ELSE IF a = "a5" THEN TwoMarkets
    ELSE IF a = "a6" THEN OneMarket
    ELSE {<<e>> : e \in OddEntries}

\* pm_get_positions: resp.json(), whatever the service holds at the time
PositionsAnswers(a) ==
    IF pm_positions[a].frozen THEN {pm_positions[a].answer} ELSE PositionsOf(a)

\* pm_get_value: float(data[0].get("value", 0.0)), or None for an empty answer;
\* the caller turns an exception into None as well (lines 33-36)
ValueAnswers(a) == IF pm_value[a] THEN {Num(7), None} ELSE {None}

---------------------------------------------------------------------------
\* monitor_positions: the loop

p_w == p_wallets[p_i]
p_p == positions[p_j]

\* where the for-loop over the roster goes after wallet i
P_At(i, roster) == IF i <= Len(roster) THEN "p_positions" ELSE "p_sleep"

\* (variant) without the outer handler the exception leaves the coroutine
P_Raise ==
    /\ p_pc' = "p_raised"
    /\ p_wallets' = <<>> /\ p_i' = 0 /\ positions' = <<>> /\ p_j' = 0
    /\ total_value' = None /\ should_alert' = FALSE
    /\ p_conn' = NoConn

\* a variant in which a failed INSERT of the upsert is swallowed where it
\* happens and the iteration goes on to its send
SendAfterFailedUpsert ==
    IF p_pc = "p_upsert" /\ ~ArgsRaise(p_p)
    THEN /\ p_pc' = "p_send"
         /\ UNCHANGED <<p_wallets, p_i, positions, p_j, total_value, should_alert, p_conn>>
    ELSE /\ p_pc' = "p_sleep"
         /\ p_wallets' = <<>> /\ p_i' = 0 /\ positions' = <<>> /\ p_j' = 0
         /\ total_value' = None /\ should_alert' = FALSE
         /\ p_conn' = NoConn

\* a variant in which the connection of line 50 is taken without a context
\* manager, so that an exception leaves it checked out
AbortHoldingConnection ==
    /\ p_pc' = "p_sleep"
    /\ p_wallets' = <<>> /\ p_i' = 0 /\ positions' = <<>> /\ p_j' = 0
    /\ total_value' = None /\ should_alert' = FALSE
    /\ UNCHANGED p_conn

\* the outer "except Exception: pass" (line 129): the cycle ends, locals die
P_Abort ==
    /\ p_pc' = "p_sleep"
    /\ p_wallets' = <<>> /\ p_i' = 0 /\ positions' = <<>> /\ p_j' = 0
    /\ total_value' = None /\ should_alert' = FALSE
    /\ p_conn' = NoConn

\* lines 13-20: the roster query
P_Roster ==
    /\ p_pc = "p_roster"
    /\ LET roster == SelectPositionWallets(wallets, 1) IN
       /\ p_wallets' = roster
       /\ p_i' = 1
       /\ p_pc' = P_At(1, roster)
    /\ p_obs' = <<>> /\ p_sent' = <<>> /\ p_fetch' = <<>>
    /\ UNCHANGED <<db_vars, p_env, p_cycle, positions, p_j, total_value, should_alert>>
    /\ UNCHANGED p_conn

P_RosterError ==
    /\ p_pc = "p_roster"
    /\ P_Abort
    /\ p_obs' = <<>> /\ p_sent' = <<>> /\ p_fetch' = <<>>
    /\ UNCHANGED <<db_vars, p_env, p_cycle>>

\* lines 28-29: positions = await pm_get_positions(address)
P_Positions ==
    /\ p_pc = "p_positions"
    /\ \E answer \in PositionsAnswers(p_w.address) :
          /\ positions' = answer
          /\ p_j' = 1
    /\ p_pc' = "p_value"
    /\ p_obs' = <<>> /\ p_sent' = <<>> /\ p_fetch' = Append(p_fetch, "ok")
    /\ UNCHANGED <<db_vars, p_env, p_cycle, p_wallets, p_i, total_value, should_alert>>
    /\ UNCHANGED p_conn

\* a variant of the handler that gives up the rest of the roster
BreakAfterFetchError(i, n) == n + 1

\* a variant of the handler that fetches the same row again
RetryAfterFetchError(i, n) == i

\* lines 30-31 and 163-164: "except Exception: continue" in a roster of n rows
ContinueAfterFetchError(i, n) == i + 1

P_PositionsError ==
    /\ p_pc = "p_positions"
    /\ p_i' = ContinueAfterFetchError(p_i, Len(p_wallets))
    /\ p_pc' = P_At(p_i', p_wallets)
    /\ p_obs' = <<>> /\ p_sent' = <<>> /\ p_fetch' = Append(p_fetch, "error")
    /\ UNCHANGED <<db_vars, p_env, p_cycle, p_wallets, positions, p_j, total_value, should_alert>>
    /\ UNCHANGED p_conn

\* a variant in which a missing value ends the cycle
GiveUpWithoutValue(v) == IF IsNone(v) THEN "p_sleep" ELSE "p_equity"

\* a variant without the guard of the equity insert
InsertWithoutValue(v) == "p_equity"

\* line 38: "if total_value is not None" guards the equity insert
AfterValue(v) == IF IsNone(v) THEN "p_acquire" ELSE "p_equity"

\* lines 33-36: total_value = await pm_get_value(address); None on an exception
P_Value ==
    /\ p_pc = "p_value"
    /\ \E v \in ValueAnswers(p_w.address) : total_value' = v
    /\ p_pc' = AfterValue(total_value')
    /\ UNCHANGED <<db_vars, p_env, p_cycle, p_wallets, p_i, positions, p_j, should_alert, p_hist>>
    /\ UNCHANGED p_conn

\* lines 38-48: INSERT INTO equity_snapshots
P_Equity ==
    /\ p_pc = "p_equity"
    /\ equity_snapshots' = Append(equity_snapshots,
           [wallet_id |-> p_w.id, taken_at |-> p_cycle, total_value |-> Float(total_value)])
    /\ p_pc' = "p_acquire"
    /\ UNCHANGED <<wallets, position_snapshots, activity_markers, p_env, p_cycle, p_locals, p_hist>>
    /\ UNCHANGED p_conn

P_EquityError ==
    /\ p_pc = "p_equity"
    /\ P_Abort
    /\ UNCHANGED <<db_vars, p_env, p_cycle, p_hist>>

\* line 50: async with core.db_pool.acquire() as conn
P_Acquire ==
    /\ p_pc = "p_acquire"
    /\ p_pc' = "p_select"
    /\ UNCHANGED <<db_vars, p_env, p_cycle, p_locals, p_hist>>
    /\ p_conn' = 0

\* line 51 with no position left: the connection is released, next wallet
P_NextWallet ==
    /\ p_pc = "p_select"
    /\ p_j > Len(positions)
    /\ p_i' = p_i + 1
    /\ p_pc' = P_At(p_i + 1, p_wallets)
    /\ UNCHANGED <<db_vars, p_env, p_cycle, p_wallets, positions, p_j, total_value, should_alert, p_hist>>
    /\ p_conn' = NoConn

\* lines 52-59: a position without condition id or percentage is skipped
P_Skip ==
    /\ p_pc = "p_select"
    /\ p_j <= Len(positions)
    /\ Skipped(p_p)
    /\ p_j' = p_j + 1
    /\ UNCHANGED <<db_vars, p_env, p_pc, p_cycle, p_wallets, p_i, positions, total_value, should_alert, p_hist>>
    /\ UNCHANGED p_conn

\* lines 61-78: the row is read and the alert decided
P_Select ==
    /\ p_pc = "p_select"
    /\ p_j <= Len(positions)
    /\ ~Skipped(p_p)
    /\ LET row == SelectSnapshot(position_snapshots, p_w.id, p_p.conditionId) IN
       /\ ~DeltaRaises(row, p_p.percentPnl)
       /\ should_alert' = ShouldAlert(row, p_p.percentPnl)
    /\ p_pc' = "p_upsert"
    /\ UNCHANGED <<db_vars, p_env, p_cycle, p_wallets, p_i, positions, p_j, total_value, p_hist>>
    /\ p_conn' = p_conn + 1

\* line 76: float(cur_pct) raises; the outer handler ends the cycle
P_SelectRaise ==
    /\ p_pc = "p_select"
    /\ p_j <= Len(positions)
    /\ ~Skipped(p_p)
    /\ DeltaRaises(SelectSnapshot(position_snapshots, p_w.id, p_p.conditionId), p_p.percentPnl)
    /\ P_Abort
    /\ UNCHANGED <<db_vars, p_env, p_cycle, p_hist>>

\* the SELECT itself fails
P_SelectError ==
    /\ p_pc = "p_select"
    /\ p_j <= Len(positions)
    /\ ~Skipped(p_p)
    /\ P_Abort
    /\ UNCHANGED <<db_vars, p_env, p_cycle, p_hist>>

\* where the loop goes after the upsert (line 110)
AfterUpsert(alert) == IF alert THEN "p_send" ELSE "p_select"

\* lines 80-108: the upsert
P_Upsert ==
    /\ p_pc = "p_upsert"
    /\ ~ArgsRaise(p_p)
    /\ LET row == SelectSnapshot(position_snapshots, p_w.id, p_p.conditionId) IN
       p_obs' = Append(p_obs,
           [wallet_id |-> p_w.id, j |-> p_j, cond |-> p_p.conditionId, cur |-> Float(p_p.percentPnl),
            prev |-> IF row = {} THEN {} ELSE {(CHOOSE r \in row : TRUE).last_percent_pnl},
            alert |-> should_alert])
    /\ position_snapshots' = UpsertSnapshot(position_snapshots, p_w.id, p_p.conditionId,
                                            Float(p_p.percentPnl), should_alert, p_cycle)
    /\ p_pc' = AfterUpsert(should_alert)
    /\ p_j' = IF should_alert THEN p_j ELSE p_j + 1
    /\ UNCHANGED <<wallets, activity_markers, equity_snapshots, p_env, p_cycle, p_wallets, p_i, positions, total_value, should_alert, p_sent, p_fetch>>
    /\ p_conn' = p_conn + 1

\* lines 105-106: float() raises while the arguments are built
P_UpsertRaise ==
    /\ p_pc = "p_upsert"
    /\ ArgsRaise(p_p)
    /\ P_Abort
    /\ UNCHANGED <<db_vars, p_env, p_cycle, p_hist>>

\* the INSERT itself fails
P_UpsertError ==
    /\ p_pc = "p_upsert"
    /\ P_Abort
    /\ UNCHANGED <<db_vars, p_env, p_cycle, p_hist>>

\* a variant in which a failed send ends the cycle
AbortAfterFailedSend(ok) == IF ok THEN "p_select" ELSE "p_sleep"

\* lines 120-127: the send is inside "try ... except Exception: pass", so the
\* loop goes on to the next position whether it succeeded or not
AfterSend(ok) == "p_select"

\* lines 110-127: send_message; an exception of the send is swallowed
P_Send ==
    /\ p_pc = "p_send"
    /\ \E ok \in BOOLEAN :
          /\ p_sent' = Append(p_sent,
                [to |-> p_w.tg_user_id, wallet_id |-> p_w.id, j |-> p_j,
                 cond |-> p_p.conditionId, pct |-> Float(p_p.percentPnl), ok |-> ok])
          /\ p_pc' = AfterSend(ok)
    /\ p_j' = p_j + 1
    /\ UNCHANGED <<db_vars, p_env, p_cycle, p_wallets, p_i, positions, total_value, should_alert, p_obs, p_fetch>>
    /\ UNCHANGED p_conn

\* line 132: asyncio.sleep, then the next cycle
P_Sleep ==
    /\ p_pc = "p_sleep"
    /\ p_cycle < MaxCycles
    /\ p_cycle' = p_cycle + 1
    /\ p_pc' = "p_roster"
    /\ p_wallets' = <<>> /\ p_i' = 0 /\ positions' = <<>> /\ p_j' = 0
    /\ total_value' = None /\ should_alert' = FALSE
    /\ UNCHANGED <<db_vars, p_env, p_hist>>
    /\ p_conn' = NoConn

NextPositionsOk ==
    \/ P_Roster \/ P_Positions \/ P_Value \/ P_Equity \/ P_Acquire
    \/ P_NextWallet \/ P_Skip \/ P_Select \/ P_SelectRaise
    \/ P_Upsert \/ P_UpsertRaise \/ P_Send \/ P_Sleep

NextPositions ==
    \/ NextPositionsOk
    \/ P_RosterError \/ P_PositionsError \/ P_EquityError
    \/ P_SelectError \/ P_UpsertError

---------------------------------------------------------------------------
\* monitor_whales: the data

\* the usdcSize and price fields of the trades: trade 2 comes without a size,
\* trade 3 with a size that is not a number, trade 4 with such a price
UsdcSizeOf(id) == IF id = 2 THEN None ELSE IF id = 3 THEN Bad ELSE Num(10)
PriceOf(id) == IF id = 4 THEN Bad ELSE Num(1)

\* one TRADE of /activity: a transaction, its timestamp and the two numeric
\* fields the notification shows
Trade(id, ts) ==
    [id |-> id, timestamp |-> ts, usdcSize |-> UsdcSizeOf(id), price |-> PriceOf(id)]

Trades == {Trade(1, 1), Trade(2, 2), Trade(3, 3), Trade(4, 2)}

\* the sequences of at most n different elements of S
NoRepeat(q) == \A i, j \in 1..Len(q) : i # j => q[i] # q[j]

DistinctSeqs(S, n) == {q \in SeqsUpTo(S, n) : NoRepeat(q)}

\* every feed of at most MaxTrades different trades, in any order
BusyFeeds == DistinctSeqs(Trades, MaxTrades)

\* what /activity can answer for an address, in any order: a1 is a busy
\* whale, a2 has made at most two trades and the others at most one
ActivityOf(a) ==
    IF a = "a1" THEN BusyFeeds
    ELSE IF a = "a2" THEN {<<>>, <<Trade(5, 1)>>, <<Trade(6, 2), Trade(5, 1)>>}
    ELSE {<<>>, <<Trade(5, 1)>>}

\* pm_get_activity_trades, line 61: the client-side filter
PmGetActivityTrades(answer, since_ts) ==
    SelectSeq(answer, LAMBDA t : t.timestamp > since_ts)

\* sorted(trades, key=timestamp): stable insertion sort
RECURSIVE InsertByTs(_, _)
InsertByTs(sorted, t) ==
    IF sorted = <<>> THEN <<t>>
    ELSE IF sorted[Len(sorted)].timestamp <= t.timestamp THEN Append(sorted, t)
    ELSE Append(InsertByTs(SubSeq(sorted, 1, Len(sorted) - 1), t), sorted[Len(sorted)])

\* a variant that takes the trades in the order of the answer
AsReturned(trades) == trades

RECURSIVE SortedByTs(_)
SortedByTs(trades) ==
    IF trades = <<>> THEN <<>>
    ELSE InsertByTs(SortedByTs(SubSeq(trades, 1, Len(trades) - 1)), trades[Len(trades)])

\* a variant of the re-check that compares with the running maximum
QualifiesAboveRunningMax(t, last_ts) == t.timestamp > max_ts

\* line 174: if ts <= last_ts: continue
Qualifies(t, last_ts) == t.timestamp > last_ts

\* line 176: max_ts = max(max_ts, ts)
Max(a, b) == IF a >= b THEN a ELSE b

\* LEFT JOIN activity_markers am ON am.wallet_id = w.id, for wallet k from marker m on
RECURSIVE JoinMarkers(_, _, _, _)
JoinMarkers(ws, ms, k, m) ==
    IF m > Len(ms) THEN <<>>
    ELSE (IF ms[m].wallet_id = k
          THEN <<[id |-> k, address |-> ws[k].address, tg_user_id |-> ws[k].tg_user_id,
                  last_ts |-> ms[m].last_seen_timestamp, marker_id |-> m]>>
          ELSE <<>>) \o JoinMarkers(ws, ms, k, m + 1)

\* a variant of the roster query without "w.is_whale=TRUE"
RECURSIVE SelectAnyRows(_, _, _)
SelectAnyRows(ws, ms, k) ==
    IF k > Len(ws) THEN <<>>
    ELSE (IF JoinMarkers(ws, ms, k, 1) = <<>>
          THEN <<[id |-> k, address |-> ws[k].address, tg_user_id |-> ws[k].tg_user_id,
                  last_ts |-> 0, marker_id |-> NULL]>>
          ELSE JoinMarkers(ws, ms, k, 1)) \o SelectAnyRows(ws, ms, k + 1)

\* SELECT w.id, w.address, w.tg_user_id, COALESCE(am.last_seen_timestamp, 0) as last_ts,
\*        am.id as marker_id
\* FROM wallets w LEFT JOIN activity_markers am ...
\* WHERE w.is_whale=TRUE AND w.whale_alerts_enabled=TRUE
RECURSIVE SelectWhaleRows(_, _, _)
SelectWhaleRows(ws, ms, k) ==
    IF k > Len(ws) THEN <<>>
    ELSE (IF ws[k].is_whale /\ ws[k].whale_alerts_enabled
          THEN (IF JoinMarkers(ws, ms, k, 1) = <<>>
                THEN <<[id |-> k, address |-> ws[k].address, tg_user_id |-> ws[k].tg_user_id,
                        last_ts |-> 0, marker_id |-> NULL]>>
                ELSE JoinMarkers(ws, ms, k, 1))
          ELSE <<>>) \o SelectWhaleRows(ws, ms, k + 1)

\* a variant whose UPDATE has no WHERE clause
WriteEveryMarker(ms, marker_id, wallet_id, ts) ==
    IF marker_id # NULL
    THEN [m \in 1..Len(ms) |-> [ms[m] EXCEPT !.last_seen_timestamp = ts]]
    ELSE Append(ms, [wallet_id |-> wallet_id, last_seen_timestamp |-> ts])

\* lines 225-238: UPDATE activity_markers ... WHERE id=$2, or INSERT when the
\* roster row had no marker
WriteMarker(ms, marker_id, wallet_id, ts) ==
    IF marker_id # NULL
    THEN [ms EXCEPT ![marker_id].last_seen_timestamp = ts]
    ELSE Append(ms, [wallet_id |-> wallet_id, last_seen_timestamp |-> ts])

\* history: a delivered send of <<subscriber, address, trade>>
Delivery(to, address, trade) == <<to, address, trade>>

---------------------------------------------------------------------------
\* monitor_whales: the loop

w_r == rows[w_i]
w_t == trades_sorted[w_j]

W_At(i, roster) == IF i <= Len(roster) THEN "w_activity" ELSE "w_sleep"

\* the outer "except Exception: pass" (line 240)
W_Abort ==
    /\ w_pc' = "w_sleep"
    /\ rows' = <<>> /\ w_i' = 0 /\ trades_sorted' = <<>> /\ w_j' = 0 /\ max_ts' = 0

\* lines 141-151: the roster query
W_Roster ==
    /\ w_pc = "w_roster"
    /\ rows' = SelectWhaleRows(wallets, activity_markers, 1)
    /\ w_i' = 1
    /\ w_pc' = W_At(1, rows')
    /\ w_answer' = <<>> /\ w_sent' = <<>> /\ w_fetch' = <<>>
    /\ UNCHANGED <<db_vars, w_env, w_cycle, trades_sorted, w_j, max_ts, w_hists>>

W_RosterError ==
    /\ w_pc = "w_roster"
    /\ W_Abort
    /\ w_answer' = <<>> /\ w_sent' = <<>> /\ w_fetch' = <<>>
    /\ UNCHANGED <<db_vars, w_env, w_cycle, w_hists>>

\* lines 161-170: trades = await pm_get_activity_trades(address, since_ts=last_ts);
\* no trade: continue; else sort and start at max_ts = last_ts
W_Activity ==
    /\ w_pc = "w_activity"
    /\ \E answer \in ActivityOf(w_r.address) :
          LET trades == PmGetActivityTrades(answer, w_r.last_ts) IN
          /\ w_answer' = answer
          /\ trades_sorted' = IF trades = <<>> THEN trades_sorted ELSE SortedByTs(trades)
          /\ w_j' = IF trades = <<>> THEN w_j ELSE 1
          /\ max_ts' = IF trades = <<>> THEN max_ts ELSE w_r.last_ts
          /\ w_i' = IF trades = <<>> THEN w_i + 1 ELSE w_i
          /\ w_pc' = IF trades = <<>> THEN W_At(w_i + 1, rows) ELSE "w_trade"
    /\ w_fetch' = Append(w_fetch, "ok")
    /\ w_sent' = SelectSeq(w_sent, LAMBDA x : x.wallet_id = w_r.id)
    /\ UNCHANGED <<db_vars, w_env, w_cycle, rows, w_hists>>

\* lines 163-164: except Exception: continue
W_ActivityError ==
    /\ w_pc = "w_activity"
    /\ w_i' = ContinueAfterFetchError(w_i, Len(rows))
    /\ w_pc' = W_At(w_i', rows)
    /\ w_answer' = <<>> /\ w_fetch' = Append(w_fetch, "error")
    /\ w_sent' = SelectSeq(w_sent, LAMBDA x : x.wallet_id = w_r.id)
    /\ UNCHANGED <<db_vars, w_env, w_cycle, rows, trades_sorted, w_j, max_ts, w_hists>>

\* a variant that formats every field that is present
TextLinesUnchecked(t) ==
    (IF ~IsNone(t.usdcSize) THEN <<"usdc">> ELSE <<>>)
    \o (IF ~IsNone(t.price) THEN <<"price">> ELSE <<>>)

\* lines 199-210: the optional lines of the notification; a field that is
\* absent, or whose float() raises, leaves its line out
TextLines(t) ==
    (IF ~IsNone(t.usdcSize) /\ IsFloat(t.usdcSize) THEN <<"usdc">> ELSE <<>>)
    \o (IF ~IsNone(t.price) /\ IsFloat(t.price) THEN <<"price">> ELSE <<>>)

\* where the loop goes after trade j of the sorted list (lines 172, 225)
AfterTrade(j, sorted, new_max, last_ts, i, roster) ==
    IF j < Len(sorted) THEN "w_trade"
    ELSE IF new_max > last_ts THEN "w_marker"
    ELSE W_At(i + 1, roster)

\* lines 172-223: one trade of the sorted list; a failed send is swallowed
W_Trade ==
    /\ w_pc = "w_trade"
    /\ LET q == Qualifies(w_t, w_r.last_ts)
           new_max == IF q THEN Max(max_ts, w_t.timestamp) ELSE max_ts
       IN /\ max_ts' = new_max
          /\ \E ok \in BOOLEAN :
                /\ w_sent' = IF q THEN Append(w_sent,
                                 [row |-> w_i, to |-> w_r.tg_user_id, wallet_id |-> w_r.id,
                                  trade |-> w_t.id, timestamp |-> w_t.timestamp,
                                  text |-> TextLines(w_t), ok |-> ok])
                             ELSE w_sent
                /\ w_hist' = IF q /\ ok
                             THEN w_hist \cup {Delivery(w_r.tg_user_id, w_r.address, w_t.id)}
                             ELSE w_hist
                /\ w_twice' = IF q /\ ok /\ Delivery(w_r.tg_user_id, w_r.address, w_t.id) \in w_hist
                              THEN w_twice \cup {Delivery(w_r.tg_user_id, w_r.address, w_t.id)}
                              ELSE w_twice
          /\ w_pc' = AfterTrade(w_j, trades_sorted, new_max, w_r.last_ts, w_i, rows)
          /\ w_i' = IF w_pc' \in {"w_trade", "w_marker"} THEN w_i ELSE w_i + 1
    /\ w_j' = w_j + 1
    /\ UNCHANGED <<db_vars, w_env, w_cycle, rows, trades_sorted, w_answer, w_fetch>>

\* lines 225-238: the watermark is persisted
W_Marker ==
    /\ w_pc = "w_marker"
    /\ activity_markers' = WriteMarker(activity_markers, w_r.marker_id, w_r.id, max_ts)
    /\ w_i' = w_i + 1
    /\ w_pc' = W_At(w_i + 1, rows)
    /\ UNCHANGED <<wallets, position_snapshots, equity_snapshots, w_env, w_cycle,
                   rows, trades_sorted, w_j, max_ts, w_answer, w_sent, w_fetch, w_hists>>

\* the UPDATE or INSERT fails
W_MarkerError ==
    /\ w_pc = "w_marker"
    /\ W_Abort
    /\ UNCHANGED <<db_vars, w_env, w_cycle, w_answer, w_sent, w_fetch, w_hists>>

\* line 243: asyncio.sleep, then the next cycle
W_Sleep ==
    /\ w_pc = "w_sleep"
    /\ w_cycle < MaxCycles
    /\ w_cycle' = w_cycle + 1
    /\ w_pc' = "w_roster"
    /\ rows' = <<>> /\ w_i' = 0 /\ trades_sorted' = <<>> /\ w_j' = 0 /\ max_ts' = 0
    /\ UNCHANGED <<db_vars, w_env, w_answer, w_sent, w_fetch, w_hists>>

NextWhalesOk ==
    \/ W_Roster \/ W_Activity \/ W_Trade \/ W_Marker \/ W_Sleep

NextWhales ==
    \/ NextWhalesOk
    \/ W_RosterError \/ W_ActivityError \/ W_MarkerError

---------------------------------------------------------------------------
\* save_wallet (app/db.py lines 82-133), one step per store operation

\* what the subscribers ask for: <<tg_user_id, address, is_whale>>
Requests == {<<2, "a2", TRUE>>, <<2, "a2", FALSE>>}

IdleCall == [pc |-> "idle", tg_user_id |-> 0, address |-> "", is_whale |-> FALSE,
             w_id |-> 0, status |-> ""]

\* a check that leaves the role out: WHERE tg_user_id=$1 AND address=$2
WalletExistsInAnyRole(ws, u, a, whale) ==
    \E k \in 1..Len(ws) : ws[k].tg_user_id = u /\ ws[k].address = a

\* SELECT id FROM wallets WHERE tg_user_id=$1 AND address=$2 AND is_whale=$3
WalletExists(ws, u, a, whale) ==
    \E k \in 1..Len(ws) :
        ws[k].tg_user_id = u /\ ws[k].address = a /\ ws[k].is_whale = whale

\* lines 93-104: the existence check
SW_Check(c) ==
    /\ calls[c].pc = "idle"
    /\ \E req \in Requests :
          calls' = [calls EXCEPT ![c] =
              IF WalletExists(wallets, req[1], req[2], req[3])
              THEN [IdleCall EXCEPT !.pc = "done", !.status = "exists", !.tg_user_id = req[1],
                                    !.address = req[2], !.is_whale = req[3]]
              ELSE [IdleCall EXCEPT !.pc = "sw_insert", !.tg_user_id = req[1],
                                    !.address = req[2], !.is_whale = req[3]]]
    /\ UNCHANGED <<db_vars, pm_vars, config, p_vars, w_vars>>

\* lines 107-116 and 124-132: INSERT INTO wallets
SW_Insert(c) ==
    /\ calls[c].pc = "sw_insert"
    /\ wallets' = Append(wallets,
           Wallet(calls[c].tg_user_id, calls[c].address, calls[c].is_whale))
    /\ calls' = [calls EXCEPT ![c] =
           IF calls[c].is_whale
           THEN [@ EXCEPT !.pc = "sw_marker", !.w_id = Len(wallets) + 1]
           ELSE [@ EXCEPT !.pc = "done", !.status = "wallet_added"]]
    /\ UNCHANGED <<position_snapshots, activity_markers, equity_snapshots, pm_vars, config, p_vars, w_vars>>

\* lines 117-121: INSERT INTO activity_markers (wallet_id, last_seen_timestamp) VALUES ($1, 0)
SW_Marker(c) ==
    /\ calls[c].pc = "sw_marker"
    /\ activity_markers' = Append(activity_markers,
           [wallet_id |-> calls[c].w_id, last_seen_timestamp |-> 0])
    /\ calls' = [calls EXCEPT ![c] = [@ EXCEPT !.pc = "done", !.status = "whale_added"]]
    /\ UNCHANGED <<wallets, position_snapshots, equity_snapshots, pm_vars, config, p_vars, w_vars>>

SaveWallet(c) == SW_Check(c) \/ SW_Insert(c) \/ SW_Marker(c)

NextSaveWallet == \E c \in 1..MaxCalls : SaveWallet(c)

---------------------------------------------------------------------------
\* Initial states and specifications

InitPositionsLoop ==
    /\ p_pc = "p_roster" /\ p_cycle = 1
    /\ p_wallets = <<>> /\ p_i = 0 /\ positions = <<>> /\ p_j = 0
    /\ total_value = None /\ should_alert = FALSE
    /\ p_obs = <<>> /\ p_sent = <<>> /\ p_fetch = <<>>
    /\ p_conn = NoConn

InitWhalesLoop ==
    /\ w_pc = "w_roster" /\ w_cycle = 1
    /\ rows = <<>> /\ w_i = 0 /\ trades_sorted = <<>> /\ w_j = 0 /\ max_ts = 0
    /\ w_answer = <<>> /\ w_sent = <<>> /\ w_fetch = <<>> /\ w_hist = {} /\ w_twice = {}

InitNoCalls == calls = [c \in 1..MaxCalls |-> [IdleCall EXCEPT !.pc = "done"]]

InitCalls == calls = [c \in 1..MaxCalls |-> IdleCall]

InitOneCall == calls = [c \in 1..MaxCalls |-> IF c = 1 THEN IdleCall ELSE [IdleCall EXCEPT !.pc = "done"]]

\* two subscribers with a wallet each, and one whale tracked by the first
InitStore ==
    /\ wallets = <<Wallet(1, "a1", FALSE), Wallet(1, "a1", TRUE), Wallet(2, "a2", FALSE)>>
    /\ position_snapshots = {}
    /\ activity_markers = <<[wallet_id |-> 2, last_seen_timestamp |-> 0]>>
    /\ equity_snapshots = <<>>

\* the first subscriber has just started to track whale a1 (save_wallet has
\* returned "whale_added"); the second has nothing tracked yet
InitWhaleStore ==
    /\ wallets = <<Wallet(1, "a1", TRUE)>>
    /\ position_snapshots = {}
    /\ activity_markers = <<[wallet_id |-> 1, last_seen_timestamp |-> 0]>>
    /\ equity_snapshots = <<>>

\* the remote data may change between any two fetches
InitRemote ==
    /\ pm_positions = [a \in Addresses |-> [frozen |-> FALSE, answer |-> <<>>]]
    /\ pm_value = [a \in Addresses |-> a = "a1"]

\* monitor_positions alone, over a roster that does not change
InitPos == InitStore /\ InitRemote /\ config \in FromEnv /\ InitPositionsLoop /\ InitWhalesLoop /\ InitNoCalls

SpecPos == InitPos /\ [][NextPositions]_vars

\* the remote data never changes, and no store operation or fetch fails
InitFrozenRemote ==
    /\ \E l1 \in PositionsOf("a1"), l2 \in PositionsOf("a2") :
          pm_positions = [a \in Addresses |->
              [frozen |-> TRUE,
               answer |-> IF a = "a1" THEN l1 ELSE IF a = "a2" THEN l2 ELSE <<>>]]
    /\ pm_value = [a \in Addresses |-> a = "a1"]

InitIdem == InitStore /\ InitFrozenRemote /\ config \in FromEnv /\ InitPositionsLoop /\ InitWhalesLoop /\ InitNoCalls

SpecIdem == InitIdem /\ [][NextPositionsOk]_vars

\* monitor_whales and a save_wallet call of the second subscriber
InitWhale == InitWhaleStore /\ InitRemote /\ config = DefaultConfig /\ InitPositionsLoop /\ InitWhalesLoop /\ InitOneCall

NextWhale == NextWhales \/ SaveWallet(1)

SpecWhale == InitWhale /\ [][NextWhale]_vars

\* both loops at once: two subscribers, each with an own wallet (a3, a2) and a
\* tracked whale (a3, a4)
InitBothStore ==
    /\ wallets = <<Wallet(1, "a3", FALSE), Wallet(2, "a2", FALSE),
                   Wallet(1, "a3", TRUE), Wallet(2, "a4", TRUE)>>
    /\ position_snapshots = {}
    /\ activity_markers = <<[wallet_id |-> 3, last_seen_timestamp |-> 0],
                            [wallet_id |-> 4, last_seen_timestamp |-> 0]>>
    /\ equity_snapshots = <<>>

InitBothRemote ==
    /\ pm_positions = [a \in Addresses |-> [frozen |-> FALSE, answer |-> <<>>]]
    /\ pm_value = [a \in Addresses |-> a = "a2"]

Init == InitBothStore /\ InitBothRemote /\ config = DefaultConfig /\ InitPositionsLoop /\ InitWhalesLoop /\ InitNoCalls

Next == NextPositions \/ NextWhales

Spec == Init /\ [][Next]_vars

\* both loops with no failure but those of the sends, over well-formed
\* payloads: the first subscriber holds two markets (a5) and tracks a whale
\* with two trades (a2), the second holds a2 and tracks a4; no portfolio
\* value is served
InitSendStore ==
    /\ wallets = <<Wallet(1, "a5", FALSE), Wallet(2, "a2", FALSE),
                   Wallet(1, "a2", TRUE), Wallet(2, "a4", TRUE)>>
    /\ position_snapshots = {}
    /\ activity_markers = <<[wallet_id |-> 3, last_seen_timestamp |-> 0],
                            [wallet_id |-> 4, last_seen_timestamp |-> 0]>>
    /\ equity_snapshots = <<>>

InitSendRemote ==
    /\ pm_positions = [a \in Addresses |-> [frozen |-> FALSE, answer |-> <<>>]]
    /\ pm_value = [a \in Addresses |-> FALSE]

InitSend == InitSendStore /\ InitSendRemote /\ config = DefaultConfig /\ InitPositionsLoop /\ InitWhalesLoop /\ InitNoCalls

\* the steps that such data enable
NextSend ==
    \/ P_Roster \/ P_Positions \/ P_Value \/ P_Acquire \/ P_NextWallet
    \/ P_Select \/ P_Upsert \/ P_Send \/ P_Sleep
    \/ NextWhalesOk

SpecSend == InitSend /\ [][NextSend]_vars

\* Both loops are tasks of one asyncio event loop (the bot's), and every await
\* in them returns or raises: the HTTP client has a timeout, the store and
\* the bot answer or fail, the sleep ends.  So a loop that can take a step
\* eventually takes one: weak fairness on each loop.
\* One subscriber with a wallet (a6) and a tracked whale (a4); every failure
\* of Next is possible.
InitLiveStore ==
    /\ wallets = <<Wallet(1, "a6", FALSE), Wallet(1, "a4", TRUE)>>
    /\ position_snapshots = {}
    /\ activity_markers = <<[wallet_id |-> 2, last_seen_timestamp |-> 0]>>
    /\ equity_snapshots = <<>>

InitLiveRemote ==
    /\ pm_positions = [a \in Addresses |-> [frozen |-> FALSE, answer |-> <<>>]]
    /\ pm_value = [a \in Addresses |-> a = "a6"]

InitLive == InitLiveStore /\ InitLiveRemote /\ config = DefaultConfig /\ InitPositionsLoop /\ InitWhalesLoop /\ InitNoCalls

SpecLive == InitLive /\ [][Next]_vars /\ WF_vars(NextPositions) /\ WF_vars(NextWhales)

\* monitor_positions over two subscribers who track the same address (a1) as
\* their own wallet; the remote data never changes and no store operation or
\* fetch fails
InitSharedStore ==
    /\ wallets = <<Wallet(2, "a1", FALSE), Wallet(1, "a1", FALSE)>>
    /\ position_snapshots = {}
    /\ activity_markers = <<>>
    /\ equity_snapshots = <<>>

InitShared == InitSharedStore /\ InitFrozenRemote /\ config \in FromEnv /\ InitPositionsLoop /\ InitWhalesLoop /\ InitNoCalls

SpecShared == InitShared /\ [][NextPositionsOk]_vars

\* save_wallet alone: MaxCalls calls of the second subscriber run at once (the
\* bot serves each update in a task of its own), over any of three stores: in
\* the first the subscriber tracks nothing yet, in the others a2 as a wallet
InitSave ==
    /\ InitWhaleStore \/ InitStore \/ InitBothStore
    /\ InitRemote /\ config = DefaultConfig
    /\ InitPositionsLoop /\ InitWhalesLoop /\ InitCalls

SpecSave == InitSave /\ [][NextSaveWallet]_vars

\* monitor_whales alone over one tracked whale (a1) whose feed may answer any
\* list at any fetch, with every fetch, store operation and send succeeding;
\* the loop takes its next step whenever it has one (asyncio runs the task
\* until it is cancelled) and never ends: "while True" goes on after cycle
\* MaxCycles, the cycle number, which monitor_whales does not read, staying
\* at MaxCycles
W_SleepAgain ==
    /\ w_pc = "w_sleep"
    /\ w_cycle = MaxCycles
    /\ w_pc' = "w_roster"
    /\ rows' = <<>> /\ w_i' = 0 /\ trades_sorted' = <<>> /\ w_j' = 0 /\ max_ts' = 0
    /\ UNCHANGED <<db_vars, w_env, w_cycle, w_answer, w_sent, w_fetch, w_hists>>

InitFeed == InitWhaleStore /\ InitRemote /\ config = DefaultConfig /\ InitPositionsLoop /\ InitWhalesLoop /\ InitNoCalls

NextFeed ==
    \/ W_Roster \/ W_Activity \/ W_Marker \/ W_Sleep \/ W_SleepAgain
    \/ (W_Trade /\ \A n \in 1..Len(w_sent') : w_sent'[n].ok)

SpecFeed == InitFeed /\ [][NextFeed]_vars /\ WF_vars(NextFeed)

\* save_wallet called one call after the other, as one handler awaiting each
\* call does (handlers/wallets.py): a call starts when no other is in flight.
\* The stores are those sequential calls of two subscribers for one address
\* leave behind: no triple twice, one watermark at 0 per whale row
SeqWallets == {Wallet(u, "a2", whale) : u \in 1..2, whale \in BOOLEAN}

WhaleIds(ws) == {k \in 1..Len(ws) : ws[k].is_whale}

InitSeqStore ==
    /\ wallets \in DistinctSeqs(SeqWallets, 2)
    /\ position_snapshots = {}
    /\ activity_markers \in
           {q \in SeqsUpTo({[wallet_id |-> k, last_seen_timestamp |-> 0] : k \in 1..Len(wallets)},
                           Len(wallets)) :
               /\ Len(q) = Cardinality(WhaleIds(wallets))
               /\ {q[i].wallet_id : i \in 1..Len(q)} = WhaleIds(wallets)
               /\ \A i, j \in 1..Len(q) : i < j => q[i].wallet_id < q[j].wallet_id}
    /\ equity_snapshots = <<>>

InitSeq ==
    /\ InitSeqStore
    /\ InitRemote /\ config = DefaultConfig
    /\ InitPositionsLoop /\ InitWhalesLoop /\ InitCalls

NextSeq ==
    \E c \in 1..MaxCalls :
        /\ \A d \in 1..MaxCalls : d # c => calls[d].pc \in {"idle", "done"}
        /\ SaveWallet(c)

SpecSeq == InitSeq /\ [][NextSeq]_vars

\* Both loops beside one save_wallet call, with no failure but those of the
\* sends, over well-formed payloads and with no portfolio value served.  The
\* first subscriber has a wallet (a2) and a whale (a4) with their alerts on,
\* and a wallet and a whale (a3) with their alerts off: the two flags are
\* columns that the loops only read, and no statement of the repository
\* writes them after the INSERT, so a flag is switched off in the database
\* itself.  The second subscriber adds a2 while the loops run.
InitRosterStore ==
    /\ wallets = <<Wallet(1, "a2", FALSE),
                   [Wallet(1, "a3", FALSE) EXCEPT !.alerts_enabled = FALSE],
                   Wallet(1, "a4", TRUE),
                   [Wallet(1, "a3", TRUE) EXCEPT !.whale_alerts_enabled = FALSE]>>
    /\ position_snapshots = {}
    /\ activity_markers = <<[wallet_id |-> 3, last_seen_timestamp |-> 0],
                            [wallet_id |-> 4, last_seen_timestamp |-> 0]>>
    /\ equity_snapshots = <<>>

InitRoster == InitRosterStore /\ InitSendRemote /\ config = DefaultConfig /\ InitPositionsLoop /\ InitWhalesLoop /\ InitOneCall

NextRoster == NextSend \/ SaveWallet(1)

SpecRoster == InitRoster /\ [][NextRoster]_vars

---------------------------------------------------------------------------
\* Properties of monitor_positions (SpecPos, SpecIdem)

\* the percentage stored for (wallet, condition): empty when there is no row
StoredPct(wallet_id, cond) ==
    {r.last_percent_pnl : r \in {x \in position_snapshots :
                                    x.wallet_id = wallet_id /\ x.condition_id = cond}}

\* the sends made for entry j of the list of this wallet's pass
SendsAbout(j) == {n \in 1..Len(p_sent) : p_sent[n].j = j}

\* observation k of this pass had a stored percentage, and moved by d from it
MovedBy(k, d) == \E v \in p_obs[k].prev : IsFloat(v) /\ Abs(p_obs[k].cur - Float(v)) = d

\* no later observation of this pass carries the condition of observation k
LastOfItsCondition(k) ==
    \A m \in (k + 1)..Len(p_obs) : p_obs[m].cond # p_obs[k].cond

Moves == 0..5

---------------------------------------------------------------------------
\* Properties of monitor_whales (SpecWhale)

\* the sends of this cycle made for roster row i, and for wallet k
RowSends(i) == SelectSeq(w_sent, LAMBDA s : s.row = i)
WalletSends(k) == SelectSeq(w_sent, LAMBDA s : s.wallet_id = k)

Chronological(q) == \A m, n \in 1..Len(q) : m < n => q[m].timestamp <= q[n].timestamp

MaxTs(q) == CHOOSE t \in {q[n].timestamp : n \in 1..Len(q)} :
                \A n \in 1..Len(q) : q[n].timestamp <= t

\* the marker rows of wallet k
MarkersOf(ms, k) == {m \in 1..Len(ms) : ms[m].wallet_id = k}

\* the watermark that gates the trades of wallet k: 0 without a marker row,
\* and the lowest row when there are several (each row yields a roster row)
Watermark(ms, k) ==
    IF MarkersOf(ms, k) = {} THEN 0
    ELSE CHOOSE v \in {ms[m].last_seen_timestamp : m \in MarkersOf(ms, k)} :
             \A m \in MarkersOf(ms, k) : v <= ms[m].last_seen_timestamp

\* the watermark of roster row i as the store holds it
StoredOf(i) ==
    IF rows[i].marker_id = NULL THEN 0
    ELSE activity_markers[rows[i].marker_id].last_seen_timestamp

\* the trades of the last answer that are newer than ts
NewerThan(ts) == {w_answer[n].id : n \in {m \in 1..Len(w_answer) : w_answer[m].timestamp > ts}}

SentOf(i) == {RowSends(i)[n].trade : n \in 1..Len(RowSends(i))}

\* C5: within a cycle, the sends made for one tracked whale wallet are in
\* non-decreasing timestamp order.
C5_ChronologicalPerAddress ==
    \A k \in 1..Len(wallets) : Chronological(WalletSends(k))

\* C6: when a cycle is over, a wallet for which trades were alerted in it has
\* its watermark persisted at the highest alerted timestamp.
C6_WatermarkIsMaxAlerted ==
    w_pc = "w_sleep" =>
        \A k \in 1..Len(wallets) :
            WalletSends(k) # <<>> =>
                /\ MarkersOf(activity_markers, k) # {}
                /\ \A m \in MarkersOf(activity_markers, k) :
                       activity_markers[m].last_seen_timestamp = MaxTs(WalletSends(k))

\* C7: no step of monitor_whales or save_wallet lowers the watermark of a
\* tracked whale wallet.
C7_WatermarkMonotone ==
    [][\A k \in 1..Len(wallets) :
          wallets[k].is_whale =>
              Watermark(activity_markers', k) >= Watermark(activity_markers, k)]_vars

\* C8: for a roster row, the trades alerted are exactly those of the answer
\* whose timestamp is above the watermark the store held when the cycle
\* started, each of them once.
C8_AlertedIffNewer ==
    /\ w_pc = "w_trade" => SentOf(w_i) \subseteq NewerThan(StoredOf(w_i))
    /\ w_pc = "w_marker" =>
           /\ SentOf(w_i) = NewerThan(StoredOf(w_i))
           /\ Len(RowSends(w_i)) = Cardinality(SentOf(w_i))
    /\ (/\ w_pc \in {"w_activity", "w_sleep"} /\ rows # <<>> /\ w_i >= 2
        /\ w_fetch[w_i - 1] = "ok" /\ RowSends(w_i - 1) = <<>>) =>
           NewerThan(StoredOf(w_i - 1)) = {}

\* watermark 1, answer with timestamps 1, 3, 2: two sends, 2 then 3, and the
\* watermark becomes 3
C8_Witness ==
    /\ w_pc = "w_sleep" /\ w_cycle = 2 /\ rows # <<>>
    /\ rows[1].last_ts = 1
    /\ w_answer = <<Trade(1, 1), Trade(3, 3), Trade(2, 2)>>
    /\ Len(w_sent) = 2 /\ w_sent[1].trade = 2 /\ w_sent[2].trade = 3
    /\ activity_markers[1].last_seen_timestamp = 3

\* C9: no trade is delivered twice to the same subscriber for the same
\* address.
C9_AtMostOnce == w_twice = {}

---------------------------------------------------------------------------
\* Properties of both loops (Spec)

\* the snapshot rows that a step adds, removes or changes
ChangedSnapshots ==
    (position_snapshots' \ position_snapshots) \cup (position_snapshots \ position_snapshots')

\* C10: a failed fetch changes nothing in the store and moves the loop to the
\* next roster row, every roster row is fetched in a cycle that is not
\* aborted, and what is written while a row is processed belongs to the
\* wallet of that row.
C10_FetchFailureIsolated ==
    /\ []((p_pc = "p_sleep" /\ p_wallets # <<>>) => Len(p_fetch) = Len(p_wallets))
    /\ []((w_pc = "w_sleep" /\ rows # <<>>) => Len(w_fetch) = Len(rows))
    /\ [][/\ (p_pc = "p_positions" /\ p_fetch' = Append(p_fetch, "error")) =>
                /\ db_vars' = db_vars /\ p_wallets' = p_wallets
                /\ p_i' = p_i + 1
                /\ p_pc' = IF p_i < Len(p_wallets) THEN "p_positions" ELSE "p_sleep"
          /\ (w_pc = "w_activity" /\ w_fetch' = Append(w_fetch, "error")) =>
                /\ db_vars' = db_vars /\ rows' = rows
                /\ w_i' = w_i + 1
                /\ w_pc' = IF w_i < Len(rows) THEN "w_activity" ELSE "w_sleep"
          /\ \A r \in ChangedSnapshots : r.wallet_id = p_w.id
          /\ \A m \in 1..Len(activity_markers') :
                (m > Len(activity_markers) \/ activity_markers'[m] # activity_markers[m]) =>
                    activity_markers'[m].wallet_id = w_r.id]_vars

\* in one cycle of each loop the first fetch failed and the second roster row
\* was still fetched and alerted
C10_Witness ==
    /\ p_fetch = <<"error", "ok">> /\ p_sent # <<>>
    /\ w_fetch = <<"error", "ok">> /\ w_sent # <<>>

\* the number of rows the roster query of each loop yields from the store
PositionRoster == Len(SelectPositionWallets(wallets, 1))
WhaleRoster == Len(SelectWhaleRows(wallets, activity_markers, 1))

\* C11: an error raised while one address is processed is isolated to that
\* address.  When a cycle that fetched at least one address is over, every
\* address of the roster has been fetched in it.
C11_LaterAddressesProcessed ==
    /\ (p_pc = "p_sleep" /\ p_fetch # <<>>) => Len(p_fetch) = PositionRoster
    /\ (w_pc = "w_sleep" /\ w_fetch # <<>>) => Len(w_fetch) = WhaleRoster

\* C12: neither loop dies.  Whatever is raised inside a cycle, each loop
\* reaches its sleep again and again and starts every one of its cycles.
C12_LoopsNeverDie ==
    /\ []<>(p_pc = "p_sleep") /\ []<>(w_pc = "w_sleep")
    /\ \A n \in 1..MaxCycles :
          /\ <>(p_pc = "p_roster" /\ p_cycle = n)
          /\ <>(w_pc = "w_roster" /\ w_cycle = n)

\* each loop is asleep after a second cycle in which an exception was raised
\* while its address was processed, after the fetch
C12_Witness ==
    /\ p_cycle = 2 /\ p_pc = "p_sleep" /\ p_wallets = <<>> /\ p_fetch = <<"ok">>
    /\ w_cycle = 2 /\ w_pc = "w_sleep" /\ rows = <<>> /\ w_fetch = <<"ok">>

---------------------------------------------------------------------------
\* Failure handling of monitor_positions (SpecPos, SpecIdem)

\* C13: a failed positions fetch skips the address for the cycle.  The step of
\* the failure changes no store row, sends nothing and moves to the next
\* roster row; and every step that changes a snapshot, appends an equity row or
\* sends is made for the roster row in hand, whose fetch of this cycle
\* succeeded.
C13_FetchFailureSkipsAddress ==
    [][/\ (p_pc = "p_positions" /\ p_fetch' = Append(p_fetch, "error")) =>
             /\ db_vars' = db_vars /\ p_sent' = <<>>
             /\ p_i' = p_i + 1 /\ p_pc' \in {"p_positions", "p_sleep"}
       /\ (\/ position_snapshots' # position_snapshots
           \/ equity_snapshots' # equity_snapshots
           \/ Len(p_sent') > Len(p_sent)) =>
             /\ Len(p_fetch) = p_i /\ p_fetch[p_i] = "ok"
             /\ \A r \in ChangedSnapshots : r.wallet_id = p_w.id
             /\ Len(equity_snapshots') > Len(equity_snapshots) =>
                    equity_snapshots'[Len(equity_snapshots')].wallet_id = p_w.id
             /\ Len(p_sent') > Len(p_sent) =>
                    p_sent'[Len(p_sent')].wallet_id = p_w.id]_vars

\* second cycle: the fetch of the first address has failed, its snapshot of
\* the first cycle is still stored and has no equity row of this cycle
C13_Witness ==
    /\ p_cycle = 2 /\ p_pc = "p_positions" /\ p_i = 2
    /\ p_fetch = <<"error">> /\ p_sent = <<>>
    /\ StoredPct(p_wallets[1].id, Num(1)) = {Num(0)}
    /\ \A n \in 1..Len(equity_snapshots) :
          equity_snapshots[n].wallet_id = p_wallets[1].id => equity_snapshots[n].taken_at = 1
    /\ \E n \in 1..Len(equity_snapshots) : equity_snapshots[n].wallet_id = p_wallets[1].id

\* the equity rows appended for wallet k in cycle c
EquityOf(k, c) ==
    {n \in 1..Len(equity_snapshots) :
        equity_snapshots[n].wallet_id = k /\ equity_snapshots[n].taken_at = c}

\* C14: a value fetch that fails or returns no value appends no equity row,
\* and the positions of the address are processed all the same.  The step
\* changes no store row and goes on to the positions; while they are
\* processed there is no equity row of this cycle for the wallet, every
\* observation is alerted iff it moved by at least the threshold from its
\* stored percentage, every alerted observation gets its send, and the
\* observed percentage is stored.
C14_NoValueNoEquity ==
    /\ []((IsNone(total_value) /\ p_pc \in {"p_acquire", "p_select", "p_upsert", "p_send"}) =>
            /\ EquityOf(p_w.id, p_cycle) = {}
            /\ \A k \in 1..Len(p_obs) :
                  /\ p_obs[k].alert <=>
                        \E d \in Moves : d >= config.alert_threshold_percent /\ MovedBy(k, d)
                  /\ Cardinality(SendsAbout(p_obs[k].j)) =
                        IF p_obs[k].alert /\ ~(p_pc = "p_send" /\ p_j = p_obs[k].j) THEN 1 ELSE 0
                  /\ LastOfItsCondition(k) =>
                        StoredPct(p_obs[k].wallet_id, p_obs[k].cond) = {Num(p_obs[k].cur)})
    /\ [][(p_pc = "p_value" /\ IsNone(total_value')) =>
             /\ p_pc' = "p_acquire"
             /\ db_vars' = db_vars
             /\ positions' = positions /\ p_j' = p_j /\ p_i' = p_i /\ p_wallets' = p_wallets]_vars

\* the address has a portfolio value, its fetch failed in the second cycle,
\* and its position that went from 0 to 5 percent has been alerted and stored
C14_Witness ==
    /\ p_cycle = 2 /\ p_pc = "p_select" /\ p_j > Len(positions)
    /\ IsNone(total_value) /\ pm_value[p_w.address]
    /\ EquityOf(p_w.id, 2) = {} /\ EquityOf(p_w.id, 1) # {}
    /\ config.alert_threshold_percent = 5 /\ Len(p_obs) = 1
    /\ p_obs[1].prev = {Num(0)} /\ p_obs[1].cur = 5 /\ p_obs[1].alert
    /\ Cardinality(SendsAbout(p_obs[1].j)) = 1
    /\ StoredPct(p_obs[1].wallet_id, p_obs[1].cond) = {Num(5)}

---------------------------------------------------------------------------
\* Failure handling of the sends (SpecSend)

\* C15: a failed send does not block the loop.  In monitor_positions the step
\* of a failed send goes on to the next position of the same list, with the
\* snapshot of the alerted position already holding the observed percentage.
\* In monitor_whales it goes on to the next trade, or to the watermark write
\* after the last one, and the watermark that is written is the highest
\* timestamp among the trades sent for the row, failed sends included.
C15_SendFailureDoesNotBlock ==
    /\ [][/\ (Len(p_sent') > Len(p_sent) /\ ~p_sent'[Len(p_sent')].ok) =>
                /\ p_pc' = "p_select" /\ p_j' = p_j + 1
                /\ p_wallets' = p_wallets /\ p_i' = p_i /\ positions' = positions
                /\ db_vars' = db_vars
                /\ StoredPct(p_w.id, p_p.conditionId) = {Num(Float(p_p.percentPnl))}
          /\ (Len(w_sent') > Len(w_sent) /\ ~w_sent'[Len(w_sent')].ok) =>
                /\ w_pc' = IF w_j < Len(trades_sorted) THEN "w_trade" ELSE "w_marker"
                /\ w_j' = w_j + 1
                /\ rows' = rows /\ w_i' = w_i /\ trades_sorted' = trades_sorted
                /\ max_ts' >= w_t.timestamp
          /\ (w_pc = "w_marker" /\ activity_markers' # activity_markers) =>
                /\ activity_markers'[w_r.marker_id].last_seen_timestamp = MaxTs(RowSends(w_i))
                /\ w_pc' = IF w_i < Len(rows) THEN "w_activity" ELSE "w_sleep"]_vars
    /\ [](w_pc = "w_marker" => max_ts = MaxTs(RowSends(w_i)))

\* in each loop the first send for the first address has failed: the second
\* position was still alerted and both snapshots hold 5 percent; the second
\* trade was still sent and the watermark is its timestamp; and each loop is
\* at its second address
C15_Witness ==
    /\ p_pc = "p_positions" /\ p_i = 2
    /\ Len(p_sent) = 2 /\ ~p_sent[1].ok /\ p_sent[1].j = 1 /\ p_sent[2].j = 2
    /\ StoredPct(p_wallets[1].id, Num(1)) = {Num(5)}
    /\ StoredPct(p_wallets[1].id, Num(2)) = {Num(5)}
    /\ w_pc = "w_activity" /\ w_i = 2
    /\ Len(w_sent) = 2 /\ ~w_sent[1].ok /\ w_sent[1].timestamp = 1 /\ w_sent[2].timestamp = 2
    /\ StoredOf(1) = 2

---------------------------------------------------------------------------
\* Send attempts of monitor_whales (SpecWhale)

\* C16: at most one send attempt per detected change.  No position of a list
\* has two sends, and a trade that has been delivered to a subscriber is not
\* the object of another, failed, attempt to the same subscriber.
C16_AtMostOneAttempt ==
    /\ \A k \in 1..Len(p_obs) : Cardinality(SendsAbout(p_obs[k].j)) <= 1
    /\ \A n \in 1..Len(w_sent) :
          ~w_sent[n].ok =>
              Delivery(w_sent[n].to, wallets[w_sent[n].wallet_id].address, w_sent[n].trade)
                  \notin w_hist

---------------------------------------------------------------------------
\* Malformed payloads in monitor_positions (SpecIdem: no store failure)

\* a field that is present but is not a number
PresentNotNumber(x) == ~IsNone(x) /\ ~IsFloat(x)

\* C17: a position whose percentage or price is present but not a number does
\* not abort the address.  Every step taken while such a position is in hand
\* keeps the roster and the list of the address, so that the loop goes on with
\* the positions and the addresses that remain.
C17_MalformedDoesNotAbort ==
    [][(/\ p_pc \in {"p_select", "p_upsert"} /\ p_j <= Len(positions)
        /\ ~IsNone(p_p.conditionId)
        /\ PresentNotNumber(p_p.percentPnl) \/ PresentNotNumber(p_p.curPrice)) =>
            /\ p_wallets' = p_wallets /\ p_i' = p_i
            /\ positions' = positions]_vars

---------------------------------------------------------------------------
\* Malformed payloads in monitor_whales (SpecWhale)

\* C18: a qualifying trade whose usdcSize or price is not a number is still
\* sent, without the line of that field and with the line of the other field
\* when that one is a number; it raises the watermark to be written, and the
\* loop goes on with the same roster to the next trade or to the watermark
\* write.
C18_MalformedTradeStillSent ==
    [][(/\ w_pc = "w_trade" /\ w_j' # w_j
        /\ w_t.timestamp > w_r.last_ts
        /\ PresentNotNumber(w_t.usdcSize) \/ PresentNotNumber(w_t.price)) =>
            /\ Len(w_sent') = Len(w_sent) + 1
            /\ LET s == w_sent'[Len(w_sent')] IN
                  /\ s.trade = w_t.id /\ s.to = w_r.tg_user_id
                  /\ s.text = (IF IsFloat(w_t.usdcSize) THEN <<"usdc">> ELSE <<>>)
                              \o (IF IsFloat(w_t.price) THEN <<"price">> ELSE <<>>)
            /\ max_ts' >= w_t.timestamp
            /\ w_pc' = IF w_j < Len(trades_sorted) THEN "w_trade" ELSE "w_marker"
            /\ rows' = rows /\ w_i' = w_i /\ trades_sorted' = trades_sorted]_vars

\* the trade with the malformed price (timestamp 2) and the one with the
\* malformed size (timestamp 3) have been sent, each with its other line, and
\* the watermark is 3
C18_Witness ==
    /\ w_pc = "w_sleep" /\ rows # <<>>
    /\ Len(w_sent) = 2
    /\ w_sent[1].trade = 4 /\ w_sent[1].text = <<"usdc">>
    /\ w_sent[2].trade = 3 /\ w_sent[2].text = <<"price">>
    /\ activity_markers[1].last_seen_timestamp = 3

\* C19: the frame of the watermark.  A marker row changes only in the write
\* step of the roster row that carries it, and only when the answer held a
\* trade newer than the value the row had; the loop adds a marker row only
\* for a roster row without one whose answer held a trade; and a fetch that
\* fails, answers nothing or answers nothing newer leaves the markers as
\* they are, sends nothing for the row and moves to the next row.
C19_WatermarkFrame ==
    [][/\ \A m \in 1..Len(activity_markers) :
             activity_markers'[m] # activity_markers[m] =>
                 /\ w_pc = "w_marker" /\ w_r.marker_id = m
                 /\ activity_markers'[m].wallet_id = activity_markers[m].wallet_id
                 /\ \E n \in 1..Len(w_answer) :
                       w_answer[n].timestamp > activity_markers[m].last_seen_timestamp
       /\ (Len(activity_markers') > Len(activity_markers) /\ w_i' # w_i) =>
             /\ w_pc = "w_marker" /\ w_r.marker_id = NULL
             /\ \E n \in 1..Len(w_answer) : w_answer[n].timestamp > 0
       /\ (/\ w_pc = "w_activity" /\ w_fetch' # w_fetch
           /\ \A n \in 1..Len(w_answer') : w_answer'[n].timestamp <= StoredOf(w_i)) =>
             /\ activity_markers' = activity_markers
             /\ SelectSeq(w_sent', LAMBDA s : s.row = w_i) = <<>>
             /\ w_i' = w_i + 1]_vars

\* second cycle: the watermark is 2, the answer holds the trades at 1 and 2
\* only, nothing was sent and the watermark is still 2
C19_Witness ==
    /\ w_cycle = 2 /\ w_pc = "w_sleep" /\ rows # <<>>
    /\ rows[1].last_ts = 2
    /\ w_answer = <<Trade(1, 1), Trade(2, 2)>> /\ w_fetch = <<"ok">>
    /\ w_sent = <<>>
    /\ activity_markers[1].last_seen_timestamp = 2

\* the trades of the last answer
Answered == {w_answer[n].id : n \in 1..Len(w_answer)}

\* C20: backfill flood.  For a roster row read with watermark 0, when the
\* trades of a successful fetch have been handled, every trade of the answer
\* has been sent once, in non-decreasing timestamp order, and the watermark to
\* be written is the newest timestamp of the answer; the write stores that
\* value in the row's marker.
C20_BackfillFlood ==
    /\ []((w_pc = "w_marker" /\ w_r.last_ts = 0) =>
            /\ SentOf(w_i) = Answered
            /\ Len(RowSends(w_i)) = Len(w_answer)
            /\ Chronological(RowSends(w_i))
            /\ max_ts = MaxTs(w_answer))
    /\ []((/\ rows # <<>> /\ w_i >= 2 /\ Len(w_fetch) = w_i - 1
           /\ w_fetch[w_i - 1] = "ok" /\ rows[w_i - 1].last_ts = 0) =>
            Len(RowSends(w_i - 1)) = Len(w_answer))
    /\ [][(/\ w_pc = "w_marker" /\ w_r.last_ts = 0
           /\ activity_markers' # activity_markers /\ w_i' # w_i) =>
            \E m \in MarkersOf(activity_markers', w_r.id) :
                /\ m = IF w_r.marker_id = NULL THEN Len(activity_markers') ELSE w_r.marker_id
                /\ activity_markers'[m].last_seen_timestamp = MaxTs(w_answer)]_vars

\* first cycle of a whale tracked at watermark 0: the feed answers the trades
\* at 3, 1 and 2, they are sent as 1, 2, 3 and the watermark becomes 3
C20_Witness ==
    /\ w_cycle = 1 /\ w_pc = "w_sleep" /\ rows # <<>>
    /\ rows[1].last_ts = 0
    /\ w_answer = <<Trade(3, 3), Trade(1, 1), Trade(2, 2)>>
    /\ Len(w_sent) = 3
    /\ w_sent[1].trade = 1 /\ w_sent[2].trade = 2 /\ w_sent[3].trade = 3
    /\ activity_markers[1].last_seen_timestamp = 3

---------------------------------------------------------------------------
\* Properties of save_wallet (SpecSave)

\* C21: the wallets table never holds two rows with the same subscriber,
\* address and is_whale flag.
C21_WalletTripleUnique ==
    \A i, j \in 1..Len(wallets) :
        (/\ wallets[i].tg_user_id = wallets[j].tg_user_id
         /\ wallets[i].address = wallets[j].address
         /\ wallets[i].is_whale = wallets[j].is_whale) => i = j

---------------------------------------------------------------------------
\* Properties of save_wallet beside monitor_whales (SpecWhale)

\* C22: while save_wallet runs beside the cycles of monitor_whales, no whale
\* wallet ever has more than one row in activity_markers.
C22_OneWatermarkPerWhale ==
    \A k \in 1..Len(wallets) :
        wallets[k].is_whale => Cardinality(MarkersOf(activity_markers, k)) <= 1

---------------------------------------------------------------------------
\* Properties of the snapshot rows (SpecPos)

\* C23: position_snapshots holds at most one row per (wallet, condition id),
\* and the upsert of a pair that already has a row changes that row in place:
\* the number of rows stays the same and the pair still has exactly one.
C23_OneSnapshotPerPair ==
    /\ [](\A r1, r2 \in position_snapshots :
            (r1.wallet_id = r2.wallet_id /\ r1.condition_id = r2.condition_id) => r1 = r2)
    /\ [][(/\ p_pc = "p_upsert"
           /\ position_snapshots' # position_snapshots
           /\ SelectSnapshot(position_snapshots, p_w.id, p_p.conditionId) # {}) =>
              /\ Cardinality(position_snapshots') = Cardinality(position_snapshots)
              /\ Cardinality(SelectSnapshot(position_snapshots', p_w.id, p_p.conditionId)) = 1]_vars

\* in the second cycle a position first seen at 0 percent is seen at 5: its
\* pair has one row, which now holds 5
C23_Witness ==
    /\ p_cycle = 2 /\ p_obs # <<>>
    /\ LET o == p_obs[Len(p_obs)] IN
       /\ o.prev = {Num(0)} /\ o.cur = 5
       /\ Cardinality(SelectSnapshot(position_snapshots, o.wallet_id, o.cond)) = 1
       /\ StoredPct(o.wallet_id, o.cond) = {Num(5)}

\* C24: a row created by a first observation has no last_alert_at, and the
\* last_alert_at of an existing row changes only in the upsert of its own
\* pair when the alert decision is true, to the time of that cycle; every
\* other step, the non-alerting upserts included, keeps the value.
C24_LastAlertFrame ==
    [][\A n \in position_snapshots' :
          LET old == SelectSnapshot(position_snapshots, n.wallet_id, n.condition_id) IN
          /\ old = {} => (n.last_alert_at = NULL /\ ~should_alert)
          /\ \A r \in old :
                n.last_alert_at # r.last_alert_at =>
                    /\ p_pc = "p_upsert" /\ should_alert
                    /\ n.wallet_id = p_w.id /\ n.condition_id = p_p.conditionId
                    /\ n.last_alert_at = p_cycle]_vars

\* a row alerted in the first cycle is updated in the second by an observation
\* that moved less than the threshold: the percentage is the new one and
\* last_alert_at is still that of the first cycle
C24_Witness ==
    /\ p_cycle = 2 /\ p_obs # <<>>
    /\ LET o == p_obs[Len(p_obs)] IN
       /\ ~o.alert /\ o.prev # {} /\ o.prev # {Num(o.cur)}
       /\ \E r \in SelectSnapshot(position_snapshots, o.wallet_id, o.cond) :
             r.last_alert_at = 1 /\ r.last_percent_pnl = Num(o.cur)

\* the condition ids of a /positions answer
CondsOf(l) == {l[j].conditionId : j \in 1..Len(l)}

\* C25: a snapshot row whose condition id is not in the list fetched for its
\* wallet is neither changed nor deleted, and nothing is sent about it: a
\* step changes or removes a row only in the upsert of the wallet in hand,
\* for a condition of the current list, and a send is about a condition of
\* the current list of the wallet in hand.
C25_AbsentConditionUntouched ==
    [][/\ \A r \in position_snapshots :
             r \notin position_snapshots' =>
                /\ p_pc = "p_upsert"
                /\ r.wallet_id = p_w.id
                /\ r.condition_id = p_p.conditionId
                /\ r.condition_id \in CondsOf(positions)
       /\ p_sent' # p_sent /\ p_sent' # <<>> =>
             /\ p_pc = "p_send"
             /\ p_sent'[Len(p_sent')].wallet_id = p_w.id
             /\ p_sent'[Len(p_sent')].cond \in CondsOf(positions)]_vars

\* the second cycle is through with the list of a wallet, has alerted one of
\* its positions, and the row of a condition seen in the first cycle that the
\* list no longer holds is still there as the first cycle wrote it
C25_Witness ==
    /\ p_cycle = 2 /\ p_pc = "p_select" /\ p_j > Len(positions)
    /\ p_sent # <<>> /\ p_obs # <<>>
    /\ \E r \in position_snapshots :
          /\ r.wallet_id = p_w.id
          /\ r.condition_id \notin CondsOf(positions)
          /\ r.last_percent_pnl = Num(0) /\ r.last_alert_at = NULL

---------------------------------------------------------------------------
\* Properties of the equity history (Spec)

\* C26: equity_snapshots only grows, by one row at a time, appended by
\* monitor_positions for the wallet in hand when the value fetch of this
\* cycle returned a value; while the positions of a wallet are processed the
\* wallet has one row of this cycle if the fetch returned a value and none
\* otherwise; no wallet has two rows of one cycle and no whale wallet has a
\* row.  No step of either loop changes or removes an existing row.
C26_EquityAppendOnly ==
    /\ [](\A n \in 1..Len(equity_snapshots) : ~wallets[equity_snapshots[n].wallet_id].is_whale)
    /\ [](\A k \in 1..Len(wallets), c \in 1..MaxCycles : Cardinality(EquityOf(k, c)) <= 1)
    /\ [](p_pc \in {"p_acquire", "p_select", "p_upsert", "p_send"} =>
            Cardinality(EquityOf(p_w.id, p_cycle)) = IF IsNone(total_value) THEN 0 ELSE 1)
    /\ [][/\ Len(equity_snapshots') >= Len(equity_snapshots)
          /\ SubSeq(equity_snapshots', 1, Len(equity_snapshots)) = equity_snapshots
          /\ equity_snapshots' # equity_snapshots =>
                /\ p_pc = "p_equity" /\ ~IsNone(total_value)
                /\ equity_snapshots' = Append(equity_snapshots,
                       [wallet_id |-> p_w.id, taken_at |-> p_cycle,
                        total_value |-> Float(total_value)])]_vars

\* two cycles are over in which both wallets were fetched: the wallet whose
\* value is served has one row per cycle, the other wallet has none, and the
\* whale loop has written a watermark meanwhile
C26_Witness ==
    /\ p_cycle = 2 /\ p_pc = "p_sleep" /\ p_fetch = <<"ok", "ok">>
    /\ Len(equity_snapshots) = 2
    /\ equity_snapshots[1] = [wallet_id |-> 2, taken_at |-> 1, total_value |-> 7]
    /\ equity_snapshots[2] = [wallet_id |-> 2, taken_at |-> 2, total_value |-> 7]
    /\ \E m \in 1..Len(activity_markers) : activity_markers[m].last_seen_timestamp > 0

---------------------------------------------------------------------------
\* Ownership of the store rows (Spec)

\* the marker rows that a step adds or changes
WrittenMarkers ==
    {m \in 1..Len(activity_markers') :
        m > Len(activity_markers) \/ activity_markers'[m] # activity_markers[m]}

\* the equity rows that a step adds
WrittenEquity == {n \in 1..Len(equity_snapshots') : n > Len(equity_snapshots)}

\* C27: the loops write disjoint rows and neither touches what the other
\* reads.  A step of monitor_positions writes only position_snapshots and
\* equity_snapshots rows of wallets with is_whale = false and leaves the
\* watermarks, the wallets and the whole state of monitor_whales as they
\* are; a step of monitor_whales writes only activity_markers rows of wallets
\* with is_whale = true and leaves the snapshots, the equity history, the
\* wallets and the whole state of monitor_positions as they are.
C27_DisjointOwnership ==
    [][/\ p_vars' # p_vars =>
             /\ UNCHANGED <<w_vars, activity_markers, wallets>>
             /\ \A r \in ChangedSnapshots : ~wallets[r.wallet_id].is_whale
             /\ \A n \in WrittenEquity : ~wallets[equity_snapshots'[n].wallet_id].is_whale
       /\ w_vars' # w_vars =>
             /\ UNCHANGED <<p_vars, position_snapshots, equity_snapshots, wallets>>
             /\ Len(activity_markers') >= Len(activity_markers)
             /\ \A m \in WrittenMarkers : wallets[activity_markers'[m].wallet_id].is_whale]_vars

\* both loops are in the middle of a cycle: monitor_positions has stored an
\* equity row and a snapshot and sent an alert, monitor_whales has sent one
\* and is about to write a watermark above one it wrote in its first cycle
C27_Witness ==
    /\ p_pc = "p_select" /\ p_sent # <<>> /\ equity_snapshots # <<>>
    /\ position_snapshots # {}
    /\ w_pc = "w_marker" /\ w_sent # <<>> /\ w_cycle = 2
    /\ \E m \in 1..Len(activity_markers) : activity_markers[m].last_seen_timestamp > 0

---------------------------------------------------------------------------
\* Pool connections (SpecPos)

\* C28: a connection is held for one store operation only: the connection
\* monitor_positions holds has never run more than one operation, and none is
\* held while a notification is being sent or a remote fetch is in progress.
C28_ConnectionPerOperation ==
    /\ p_conn <= 1
    /\ p_pc = "p_send" => p_conn = NoConn
    /\ p_pc \in {"p_positions", "p_value"} => p_conn = NoConn

---------------------------------------------------------------------------
\* The roster of a cycle (SpecRoster)

\* the wallets each roster query matches in the store as it is
PositionMatches == {k \in 1..Len(wallets) : ~wallets[k].is_whale /\ wallets[k].alerts_enabled}
WhaleMatches == {k \in 1..Len(wallets) : wallets[k].is_whale /\ wallets[k].whale_alerts_enabled}

\* the wallets of a roster
IdsOf(q) == {q[n].id : n \in 1..Len(q)}

\* C29: each cycle reads its roster anew and works on that roster only.  The
\* roster read of monitor_positions yields exactly the wallets that are then
\* is_whale = false with alerts_enabled, that of monitor_whales exactly those
\* with is_whale = true and whale_alerts_enabled; the roster in hand changes
\* only at the read and at the end of the cycle, not when a wallet is added;
\* and every fetch, store write and send of a loop is for a wallet of the
\* roster in hand.  So a wallet whose flag is off at the read, or that is
\* added after it, gets nothing in that cycle, and a wallet added during a
\* cycle is in the roster of the next.
C29_RosterPerCycle ==
    /\ [](IdsOf(p_wallets) \subseteq PositionMatches /\ IdsOf(rows) \subseteq WhaleMatches)
    /\ [](\A r \in position_snapshots : r.wallet_id \in PositionMatches)
    /\ [][/\ (p_pc = "p_roster" /\ p_pc' # p_pc) => IdsOf(p_wallets') = PositionMatches
          /\ (w_pc = "w_roster" /\ w_pc' # w_pc) => IdsOf(rows') = WhaleMatches
          /\ p_wallets' # p_wallets => p_pc \in {"p_roster", "p_sleep"}
          /\ rows' # rows => w_pc \in {"w_roster", "w_sleep"}
          /\ wallets' # wallets => (p_wallets' = p_wallets /\ rows' = rows)
          /\ (p_fetch' # p_fetch /\ p_fetch' # <<>>) =>
                /\ p_i \in 1..Len(p_wallets)
                /\ positions' \in PositionsOf(wallets[p_w.id].address)
          /\ \A r \in ChangedSnapshots : r.wallet_id = p_w.id /\ p_w.id \in IdsOf(p_wallets)
          /\ (p_sent' # p_sent /\ p_sent' # <<>>) =>
                /\ p_sent'[Len(p_sent')].wallet_id \in IdsOf(p_wallets)
                /\ p_sent'[Len(p_sent')].to = wallets[p_w.id].tg_user_id
          /\ (w_fetch' # w_fetch /\ w_fetch' # <<>>) =>
                /\ w_i \in 1..Len(rows)
                /\ w_answer' \in ActivityOf(wallets[w_r.id].address)
          /\ w_vars' # w_vars =>
                \A m \in WrittenMarkers : activity_markers'[m].wallet_id \in IdsOf(rows)
          /\ Len(w_sent') > Len(w_sent) =>
                w_sent'[Len(w_sent')].wallet_id \in IdsOf(rows)]_vars

\* the second cycle of monitor_positions has reached the wallet that the
\* second subscriber added after the first roster read and stored its first
\* observation; the first subscriber's enabled wallet has a row as well, the
\* wallet with alerts off has none
C29_Witness ==
    /\ p_cycle = 2 /\ p_pc = "p_select" /\ p_j > Len(positions)
    /\ wallets[p_w.id].tg_user_id = 2 /\ IdsOf(p_wallets) = {1, p_w.id}
    /\ p_obs # <<>> /\ p_obs[1].prev = {}
    /\ \E r \in position_snapshots : r.wallet_id = p_w.id
    /\ \E r \in position_snapshots : r.wallet_id = 1 /\ r.last_alert_at = 2
    /\ ~\E r \in position_snapshots : r.wallet_id = 2

---------------------------------------------------------------------------
\* Positions that cannot be diffed (SpecPos)

\* the places of a list whose position has no condition id or no percentage
Lacking(l) ==
    {j \in 1..Len(l) : IsNone(l[j].conditionId) \/ IsNone(l[j].percentPnl)}

\* C30: a position without condition id or without percentage is skipped and
\* the rest of the list goes on.  The step that meets such a position writes
\* nothing to the store, sends nothing and moves to the next position of the
\* same list; no observation or send of the pass is about such a position and
\* no row without a condition id exists; and when the list is through, every
\* other position of it has been upserted.
C30_SkippedPosition ==
    /\ [](\A r \in position_snapshots : ~IsNone(r.condition_id))
    /\ [](p_pc \in {"p_select", "p_upsert", "p_send"} =>
            /\ \A k \in 1..Len(p_obs) : p_obs[k].j \notin Lacking(positions)
            /\ \A k \in 1..Len(p_sent) : p_sent[k].j \notin Lacking(positions))
    /\ []((p_pc = "p_select" /\ p_j > Len(positions)) =>
            {p_obs[k].j : k \in 1..Len(p_obs)} = (1..Len(positions)) \ Lacking(positions))
    /\ [][(p_pc = "p_select" /\ p_j \in Lacking(positions)) =>
             /\ db_vars' = db_vars /\ p_sent' = p_sent /\ p_obs' = p_obs
             /\ p_j' = p_j + 1 /\ p_pc' = "p_select"
             /\ p_i' = p_i /\ p_wallets' = p_wallets /\ positions' = positions]_vars

\* in the second cycle the list of a wallet begins with a position that cannot
\* be diffed; the list is through, the position after it has been alerted
\* and stored, and nothing was recorded for the first
C30_Witness ==
    /\ p_cycle = 2 /\ p_pc = "p_select" /\ p_j > Len(positions)
    /\ Len(positions) = 2 /\ Lacking(positions) = {1}
    /\ Len(p_obs) = 1 /\ p_obs[1].j = 2 /\ p_obs[1].alert
    /\ Len(p_sent) = 1 /\ p_sent[1].j = 2
    /\ StoredPct(p_w.id, positions[2].conditionId) = {positions[2].percentPnl}

---------------------------------------------------------------------------
\* The baseline of the diff (SpecPos)

---------------------------------------------------------------------------
\* Two subscribers, one address (SpecShared)

\* the snapshot rows of wallet k without their key
SnapshotsOf(k) ==
    {[condition_id |-> r.condition_id, last_percent_pnl |-> r.last_percent_pnl,
      last_alert_at |-> r.last_alert_at] : r \in {x \in position_snapshots : x.wallet_id = k}}

\* C32: state and alerts are per subscriber.  Every send of a pass goes to
\* the subscriber of the wallet row it was made for, every snapshot belongs
\* to a wallet row, and what a subscriber's row ends a cycle with does not
\* depend on the other subscriber tracking the address too: over a feed that
\* never changes, both rows of the address hold the same snapshots when a
\* cycle is over, as each would if it were the only one.
C32_PerSubscriber ==
    /\ \A k \in 1..Len(p_sent) : p_sent[k].to = wallets[p_sent[k].wallet_id].tg_user_id
    /\ \A r \in position_snapshots : r.wallet_id \in 1..Len(wallets)
    /\ p_pc = "p_sleep" =>
          \A i, j \in 1..Len(wallets) :
              (wallets[i].address = wallets[j].address /\ ~wallets[i].is_whale /\ ~wallets[j].is_whale) =>
                  SnapshotsOf(i) = SnapshotsOf(j)

----------------------------------------------------------------------------
\* the rows of the wallets table that carry the triple of call c
RowsOfCall(ws, c) ==
    {k \in 1..Len(ws) : /\ ws[k].tg_user_id = calls[c].tg_user_id
                        /\ ws[k].address = calls[c].address
                        /\ ws[k].is_whale = calls[c].is_whale}

\* C33: with save_wallet calls made one after the other, a call returns
\* "exists" exactly when a row with its (subscriber, address, is_whale) triple
\* is there, and then no table changes; any other call, in particular one for
\* the same subscriber and address in the other role, goes on to insert and
\* leaves exactly one row with its triple; so no triple is ever stored twice.
C33_SequentialSaveWallet ==
    /\ [][\A c \in 1..MaxCalls :
            /\ (calls[c].pc = "idle" /\ calls'[c].pc = "done") =>
                  /\ calls'[c].status = "exists"
                  /\ \E k \in 1..Len(wallets) :
                        /\ wallets[k].tg_user_id = calls'[c].tg_user_id
                        /\ wallets[k].address = calls'[c].address
                        /\ wallets[k].is_whale = calls'[c].is_whale
                  /\ db_vars' = db_vars
            /\ (calls[c].pc = "idle" /\ calls'[c].pc = "sw_insert") =>
                  ~ \E k \in 1..Len(wallets) :
                        /\ wallets[k].tg_user_id = calls'[c].tg_user_id
                        /\ wallets[k].address = calls'[c].address
                        /\ wallets[k].is_whale = calls'[c].is_whale
            /\ (calls[c].pc = "sw_insert" /\ calls'[c].pc # "sw_insert") =>
                  /\ calls'[c].status = IF calls[c].is_whale THEN "" ELSE "wallet_added"
                  /\ Cardinality(RowsOfCall(wallets', c)) = 1
            /\ (calls[c].pc = "sw_marker" /\ calls'[c].pc # "sw_marker") =>
                  /\ calls'[c].pc = "done" /\ calls'[c].status = "whale_added"
                  /\ wallets' = wallets]_vars
    /\ [](\A u \in 1..2, whale \in BOOLEAN :
            Cardinality({k \in 1..Len(wallets) :
                /\ wallets[k].tg_user_id = u /\ wallets[k].address = "a2"
                /\ wallets[k].is_whale = whale}) <= 1)

\* the second subscriber tracked a2 as own wallet; one call added it as whale
\* too, and the next call for the whale role returned "exists"
C33_Witness ==
    /\ Len(wallets) = 2
    /\ wallets[1] = Wallet(2, "a2", FALSE) /\ wallets[2] = Wallet(2, "a2", TRUE)
    /\ calls[1].pc = "done" /\ calls[1].status = "whale_added"
    /\ calls[2].pc = "done" /\ calls[2].status = "exists" /\ calls[2].is_whale

\* C34: when save_wallet returns "whale_added" the new wallet has exactly one
\* watermark row and that row holds 0; and a roster row that monitor_whales
\* reads for a wallet without watermark row carries watermark 0.
C34_WatermarkCreatedAtZero ==
    [][/\ \A c \in 1..MaxCalls :
             (calls[c].pc = "sw_marker" /\ calls'[c].status = "whale_added") =>
                 /\ Cardinality(MarkersOf(activity_markers', calls[c].w_id)) = 1
                 /\ \A m \in MarkersOf(activity_markers', calls[c].w_id) :
                        activity_markers'[m].last_seen_timestamp = 0
       /\ w_pc = "w_roster" =>
             \A i \in 1..Len(rows') :
                 /\ (rows'[i].marker_id = NULL) = (MarkersOf(activity_markers, rows'[i].id) = {})
                 /\ rows'[i].marker_id = NULL => rows'[i].last_ts = 0]_vars

\* the trades of the list in hand that qualify for an alert
QualifyingTrades ==
    {trades_sorted[n].id : n \in {m \in 1..Len(trades_sorted) :
                                     Qualifies(trades_sorted[m], w_r.last_ts)}}

\* C35: when monitor_whales writes the watermark of a tracked whale wallet, a
\* send has been attempted for every qualifying trade of the list in hand, and
\* no send for that wallet follows the write in the same cycle (a send is never
\* made for a wallet for which an earlier roster row of the cycle has sent and
\* written).
C35_WriteAfterAllSends ==
    [][/\ (w_pc = "w_marker" /\ w_pc' # "w_marker" /\ rows' = rows) =>
             /\ w_j > Len(trades_sorted)
             /\ QualifyingTrades \subseteq SentOf(w_i)
       /\ Len(w_sent') > Len(w_sent) =>
             \A n \in 1..Len(w_sent) :
                 w_sent[n].wallet_id = w_r.id => w_sent[n].row = w_i]_vars

\* C36: every notification of monitor_positions follows a completed upsert of
\* the same observation (same list entry, same percentage, alert decided), and
\* at the moment of a send the stored row of the position holds the observed
\* percentage and this cycle as its last alert; so after a failed upsert
\* nothing is sent for the observation.
C36_SendAfterUpsert ==
    /\ \A n \in 1..Len(p_sent) :
          \E k \in 1..Len(p_obs) :
              /\ p_obs[k].j = p_sent[n].j /\ p_obs[k].wallet_id = p_sent[n].wallet_id
              /\ p_obs[k].cond = p_sent[n].cond /\ p_obs[k].cur = p_sent[n].pct
              /\ p_obs[k].alert
    /\ p_pc = "p_send" =>
          /\ p_obs # <<>> /\ p_obs[Len(p_obs)].j = p_j
          /\ \E r \in SelectSnapshot(position_snapshots, p_w.id, p_p.conditionId) :
                r.last_percent_pnl = Num(Float(p_p.percentPnl)) /\ r.last_alert_at = p_cycle

\* second cycle: the position moved by the threshold from its stored
\* percentage, the upsert replaced the baseline and the notification went out
C36_Witness ==
    /\ p_cycle = 2 /\ Len(p_sent) = 1 /\ p_sent[1].ok
    /\ \E k \in 1..Len(p_obs) :
          /\ p_obs[k].j = p_sent[1].j /\ p_obs[k].prev = {Num(0)} /\ p_obs[k].cur = 5
          /\ StoredPct(p_obs[k].wallet_id, p_obs[k].cond) = {Num(5)}

\* the timestamp a trade of the feeds carries
TimestampOf(id) ==
    (CHOOSE t \in Trades \cup {Trade(5, 1), Trade(6, 2)} : t.id = id).timestamp

\* the trades delivered for the roster row in hand in earlier cycles
DeliveredEarlier ==
    {d[3] : d \in {x \in w_hist : x[1] = w_r.tg_user_id /\ x[2] = w_r.address}}
        \ {w_sent[n].trade : n \in 1..Len(w_sent)}

\* C37: a trade alerted for a whale address has a timestamp greater than
\* that of every trade delivered for the address in an earlier cycle.
C37_IncreasingAcrossCycles ==
    [][(w_pc = "w_trade" /\ Len(w_sent') > Len(w_sent)) =>
          \A id \in DeliveredEarlier : TimestampOf(id) < w_t.timestamp]_vars

\* trade id is in the list the feed returned to the fetch of the row in hand
SeenInFeed(id) == \E n \in 1..Len(w_answer) : w_answer[n].id = id

\* a send of trade id has been made, in this cycle or an earlier one
Attempted(id) == \E d \in w_hist : d[3] = id

\* C38: with every fetch and store write succeeding, a trade that a cycle
\* has found in the feed of the tracked whale address, and whose timestamp is
\* not below the stored watermark of the address, eventually gets a send, also
\* when its timestamp equals that of a trade alerted earlier.
C38_NoTradeSkipped ==
    \A id \in {t.id : t \in Trades} :
        (SeenInFeed(id) /\ TimestampOf(id) >= Watermark(activity_markers, 1)) ~> Attempted(id)

====
